---- MODULE Spec2Model ----
(***************************************************************************)
(* Model of the gomodel persistence layer for the Server entity:           *)
(* Create / Update / Delete against the document store (server.go) and the *)
(* cache-aside lookup CacheGetServer with its two background fill tasks.   *)
(* ServerMember and ModelTemplate repeat the same code with other names.   *)
(*                                                                         *)
(* The document store (mgo) and the cache (redis) are collaborators: a     *)
(* store call or a cache call either fails with a client error, chosen     *)
(* nondeterministically, or acts on the modelled contents.  A cache read   *)
(* of an absent or expired key yields the empty string.                    *)
(*                                                                         *)
(* Spec runs every operation.  SpecRepo runs the repository alone,         *)
(* SpecLookup the lookup path over a store that Create and Delete change,  *)
(* SpecLegacy the lookup path from a cache that already holds a payload of *)
(* another shape, and SpecStale the lookup path beside a writer that       *)
(* renames and deletes a document the store already holds.  SpecKeys runs  *)
(* the construction of the cache key alone, SpecPair the repository for    *)
(* two objects.                                                            *)
(***************************************************************************)
EXTENDS Integers, Sequences, FiniteSets, TLC

VARIABLES now, nextId, ents, store, cache, calls, tasks, last, ops

vars == <<now, nextId, ents, store, cache, calls, tasks, last, ops>>

(***************************************************************************)
(* Bounds of the model.                                                    *)
(***************************************************************************)
MaxObjects == 1     \* in-memory Server objects owned by callers
MaxCallers == 2     \* CacheGetServer calls in progress at one time
MaxCalls   == 3     \* Create, Update, Delete and CacheGetServer calls in a run
MaxTicks   == 2     \* clock advances

Objects == 1..MaxObjects
Callers == 1..MaxCallers

(***************************************************************************)
(* Program constants.                                                      *)
(***************************************************************************)
ServerClientName == "main"
ServerDBName     == "badpetbot"
ServerColName    == "servers"
CacheTTL         == 120
NegCacheTTL      == 60

(***************************************************************************)
(* Time.  The Go zero time.Time is ZeroTime; the clock starts after it and *)
(* is observed every NegCacheTTL seconds (CacheTTL is a multiple of it).   *)
(***************************************************************************)
ZeroTime  == 0
StartTime == ZeroTime + 1
EndTime   == StartTime + MaxTicks * NegCacheTTL

(***************************************************************************)
(* Errors.                                                                 *)
(***************************************************************************)
NoErr           == "nil"
ErrNotFound     == "not found"        \* mgo.ErrNotFound
StoreError      == "StoreError"       \* any other error of the store
CacheError      == "CacheError"       \* error of the cache client
UnmarshalError  == "UnmarshalError"   \* json.Unmarshal failure
ValidationError == "ValidationError"  \* validator failure

(***************************************************************************)
(* The Server struct, its BSON document and its JSON text.                 *)
(***************************************************************************)
NilId == 0          \* the empty bson.ObjectId

DiscordIDs == {"", "A1"}      \* DiscordID values callers put in an object
LookupKeys == {"discord_id"}
LookupValues == {"A1"}

ZeroServer ==
    [ID |-> NilId, DiscordID |-> "", CreatedAt |-> ZeroTime, UpdatedAt |-> ZeroTime]

\* The object a caller builds before Create: Server{DiscordID: "A1"}.
NewServer == [ZeroServer EXCEPT !.DiscordID = "A1"]

\* bson struct tags: the stored document of a Server.
ToBSON(s) ==
    [_id |-> s.ID, discord_id |-> s.DiscordID,
     created_at |-> s.CreatedAt, updated_at |-> s.UpdatedAt]

FromBSON(d) ==
    [ID |-> d._id, DiscordID |-> d.discord_id,
     CreatedAt |-> d.created_at, UpdatedAt |-> d.updated_at]

\* Strings held by the cache are token sequences; "" is the empty one.
EmptyString == <<>>
NegValue    == <<"neg">>

\* json.Marshal of a Server: an object of the json struct tags.
Marshal(s) ==
    <<"{", "_id", s.ID, "discord_id", s.DiscordID,
      "created_at", s.CreatedAt, "updated_at", s.UpdatedAt, "}">>

IsServerJSON(text) ==
    /\ Len(text) = 10
    /\ text[1] = "{" /\ text[10] = "}"
    /\ text[2] = "_id" /\ text[4] = "discord_id"
    /\ text[6] = "created_at" /\ text[8] = "updated_at"

\* json.Unmarshal into a new(Server): the fields of the object, or an error
\* that leaves the zero Server.
Unmarshal(text) ==
    IF IsServerJSON(text)
    THEN [err |-> NoErr,
          server |-> [ID |-> text[3], DiscordID |-> text[5],
                      CreatedAt |-> text[7], UpdatedAt |-> text[9]]]
    ELSE [err |-> UnmarshalError, server |-> ZeroServer]

\* Faulty variant of Validate: every Server passes.
ValidateNothing(s) == NoErr

\* validate:"required" on every field of Server.
Validate(s) ==
    IF /\ s.ID /= NilId
       /\ s.DiscordID /= ""
       /\ s.CreatedAt /= ZeroTime
       /\ s.UpdatedAt /= ZeroTime
    THEN NoErr ELSE ValidationError

(***************************************************************************)
(* Cache keys.                                                             *)
(***************************************************************************)
\* Faulty variant of CacheKeyOf: the collection name is left out.
CacheKeyWithoutCol(client, db, col, key, value) ==
    client \o ":" \o db \o ":" \o key \o ":" \o value

CacheKeyOf(client, db, col, key, value) ==
    client \o ":" \o db \o ":" \o col \o ":" \o key \o ":" \o value

ServerCacheKey(key, value) ==
    CacheKeyOf(ServerClientName, ServerDBName, ServerColName, key, value)

NegKey(cacheKey) == "neg:" \o cacheKey

PosKeys == {ServerCacheKey(k, v) : k \in LookupKeys, v \in LookupValues}
AllCacheKeys == PosKeys \cup {NegKey(k) : k \in PosKeys}

(***************************************************************************)
(* The cache collaborator.  An entry holds the string, its expiry instant  *)
(* and, as history, the error of the store query of the call that wrote    *)
(* it.  A key holding the empty string reads like an absent key, and is    *)
(* kept as one.                                                            *)
(***************************************************************************)
NoEntry == [val |-> EmptyString, exp |-> ZeroTime, src |-> NoErr]

\* The string a successful GET yields: "" when the key is absent or expired.
Stored(k) == IF now < cache[k].exp THEN cache[k].val ELSE EmptyString

\* client.Get(k).Result(): the outcomes a read can have.
ClientGet(k) ==
    {[err |-> CacheError, result |-> EmptyString],
     [err |-> NoErr, result |-> Stored(k)]}

\* client.Set(k, text, ttl).Err() without error: the cache afterwards.
ClientSet(k, text, ttl, src) ==
    [cache EXCEPT ![k] = IF text = EmptyString THEN NoEntry
                         ELSE [val |-> text, exp |-> now + ttl, src |-> src]]

(***************************************************************************)
(* The store collaborator.                                                 *)
(***************************************************************************)
\* Find(bson.M{key: value}): the documents the equality filter selects.
Matching(key, value) ==
    {d \in store : key = "discord_id" /\ d.discord_id = value}

\* Find(filter).One(server): the outcomes of the query.  A query that fails
\* leaves the new(Server) it was given as it was.
StoreFindOne(filter) ==
    {[err |-> StoreError, server |-> ZeroServer]}
    \cup (IF Matching(filter[1], filter[2]) = {}
          THEN {[err |-> ErrNotFound, server |-> ZeroServer]}
          ELSE {[err |-> NoErr, server |-> FromBSON(d)] :
                    d \in Matching(filter[1], filter[2])})

(***************************************************************************)
(* Update documents (bson.M): a map from update operator to a map from     *)
(* field to value.                                                         *)
(***************************************************************************)
EmptyMap == [f \in {} |-> ZeroTime]

Patches ==
    {EmptyMap,
     "$set" :> ("discord_id" :> "A2"),
     "$set" :> ("updated_at" :> ZeroTime),
     "$set" :> ("created_at" :> EndTime + NegCacheTTL),
     "$unset" :> ("discord_id" :> "")}

\* Faulty variant of MergeUpdatedAt: the caller's document is taken for a map
\* of fields and wrapped in "$set".
MergeWrapping(updates, t) ==
    "$set" :> [f \in DOMAIN updates \cup {"updated_at"} |->
                  IF f = "updated_at" THEN t ELSE updates[f]]

\* Lines 80-84 of Update: updated_at is put into the "$set" map of the
\* caller's update document, which is created when absent.
MergeUpdatedAt(updates, t) ==
    LET base == IF "$set" \in DOMAIN updates THEN updates["$set"] ELSE EmptyMap
        set  == [f \in DOMAIN base \cup {"updated_at"} |->
                    IF f = "updated_at" THEN t ELSE base[f]]
    IN  [op \in DOMAIN updates \cup {"$set"} |->
            IF op = "$set" THEN set ELSE updates[op]]

\* The store applying an update document to a document: "$unset" removes a
\* field (it then decodes to the zero value), "$set" assigns it.
ApplyUpdate(d, updates) ==
    LET set   == IF "$set" \in DOMAIN updates THEN updates["$set"] ELSE EmptyMap
        unset == IF "$unset" \in DOMAIN updates THEN updates["$unset"] ELSE EmptyMap
        V(f, zero, old) == IF f \in DOMAIN unset THEN zero
                           ELSE IF f \in DOMAIN set THEN set[f] ELSE old
    IN  [_id        |-> d._id,
         discord_id |-> V("discord_id", "", d.discord_id),
         created_at |-> V("created_at", ZeroTime, d.created_at),
         updated_at |-> V("updated_at", ZeroTime, d.updated_at)]

\* The outcomes of a write to a collection that holds the documents st: the
\* store's own failure, or the effect.
InsertInto(st, doc) ==
    {[err |-> StoreError, store |-> st]}
    \cup (IF \E d \in st : d._id = doc._id
          THEN {}
          ELSE {[err |-> NoErr, store |-> st \cup {doc}]})

\* Faulty variant of UpdateIdIn: the selector is left empty.
UpdateAllIn(st, id, updates) ==
    {[err |-> StoreError, store |-> st]}
    \cup (IF st /= {}
          THEN {[err |-> NoErr, store |-> {ApplyUpdate(d, updates) : d \in st}]}
          ELSE {[err |-> ErrNotFound, store |-> st]})

UpdateIdIn(st, id, updates) ==
    {[err |-> StoreError, store |-> st]}
    \cup (IF \E d \in st : d._id = id
          THEN {[err |-> NoErr,
                 store |-> {IF d._id = id THEN ApplyUpdate(d, updates) ELSE d : d \in st}]}
          ELSE {[err |-> ErrNotFound, store |-> st]})

RemoveIdFrom(st, id) ==
    {[err |-> StoreError, store |-> st]}
    \cup (IF \E d \in st : d._id = id
          THEN {[err |-> NoErr, store |-> {d \in st : d._id /= id}]}
          ELSE {[err |-> ErrNotFound, store |-> st]})

\* The writes of the package, on the collection as it is.
StoreInsert(doc) == InsertInto(store, doc)

StoreUpdateId(id, updates) == UpdateIdIn(store, id, updates)

StoreRemoveId(id) == RemoveIdFrom(store, id)

(***************************************************************************)
(* State of a CacheGetServer call and of its background task.              *)
(***************************************************************************)
Unread     == [err |-> "unread", result |-> EmptyString]
NotQueried == [err |-> "unqueried", server |-> ZeroServer]

\* pc: idle, neg (before the read of line 118), pos (before the read of line
\* 126), store (before the query of line 136).  negRes, posRes and storeRes
\* are what the call read, queries the filters it sent to the store, disp the
\* tasks it started.
IdleCall ==
    [pc |-> "idle", key |-> "", value |-> "", negCache |-> FALSE, cacheKey |-> "",
     negRes |-> Unread, posRes |-> Unread, storeRes |-> NotQueried,
     queries |-> <<>>, disp |-> <<>>]

\* A fill task: its arguments and, as history, the error of the store query
\* of the call that started it.
NoTask == [kind |-> "none", key |-> "", server |-> ZeroServer, src |-> NoErr]

\* last: the operation that returned most recently.  op names it, obj is the
\* object or the caller, err the error returned; for a repository operation
\* calls are the store methods it invoked, id the identifier it passed and
\* patch the update document as the call left it; for CacheGetServer server
\* is the pointer returned (<<>> for nil, <<s>> for a Server s) and get the
\* call with what it read and started.
NoOp == [op |-> "none", obj |-> 0, err |-> NoErr, calls |-> <<>>, id |-> NilId,
         patch |-> EmptyMap, server |-> <<>>, get |-> IdleCall]

Init ==
    /\ now = StartTime
    /\ nextId = 1
    /\ ents = [o \in Objects |-> NewServer]
    /\ store = {}
    /\ cache = [k \in AllCacheKeys |-> NoEntry]
    /\ calls = [c \in Callers |-> IdleCall]
    /\ tasks = [c \in Callers |-> NoTask]
    /\ last = NoOp
    /\ ops = 0

\* The cache is shared and outlives the process: at the start it may hold,
\* under a positive key, a payload that is not the JSON of a Server.
Malformed == <<"{", "_id">>

InitLegacy ==
    /\ now = StartTime
    /\ nextId = 1
    /\ ents = [o \in Objects |-> NewServer]
    /\ store = {}
    /\ cache = [k \in AllCacheKeys |->
                   IF k \in PosKeys
                   THEN [val |-> Malformed, exp |-> StartTime + CacheTTL, src |-> "legacy"]
                   ELSE NoEntry]
    /\ calls = [c \in Callers |-> IdleCall]
    /\ tasks = [c \in Callers |-> NoTask]
    /\ last = NoOp
    /\ ops = 0

(***************************************************************************)
(* Repository operations.                                                  *)
(***************************************************************************)
\* Faulty variant of NewObjectId: the same identifier every time.
NewObjectIdFixed == NilId + 1

\* bson.NewObjectId(): an identifier never handed out before.
NewObjectId == nextId

\* The caller assigns the exported field DiscordID of its object.
Assign(o, v) ==
    /\ ents[o].DiscordID /= v
    /\ ents' = [ents EXCEPT ![o].DiscordID = v]
    /\ UNCHANGED <<now, nextId, store, cache, calls, tasks, last, ops>>

\* Server.Create, lines 55-72.
Create(o) ==
    /\ ops < MaxCalls
    /\ ops' = ops + 1
    /\ LET this == [ents[o] EXCEPT !.ID = NewObjectId,
                                   !.CreatedAt = now,
                                   !.UpdatedAt = now]
       IN  /\ ents' = [ents EXCEPT ![o] = this]
           /\ nextId' = nextId + 1
           /\ IF Validate(this) /= NoErr
              THEN /\ store' = store
                   /\ last' = [NoOp EXCEPT !.op = "Create", !.obj = o,
                                           !.err = Validate(this)]
              ELSE \E r \in StoreInsert(ToBSON(this)) :
                   /\ store' = r.store
                   /\ last' = [NoOp EXCEPT !.op = "Create", !.obj = o, !.err = r.err,
                                           !.calls = <<"Insert">>, !.id = this.ID]
    /\ UNCHANGED <<now, cache, calls, tasks>>

\* Faulty variant of Update: the cache is emptied when the update is sent.
UpdateInvalidating(o, patch) ==
    /\ ops < MaxCalls
    /\ ops' = ops + 1
    /\ LET this    == [ents[o] EXCEPT !.UpdatedAt = now]
           updates == MergeUpdatedAt(patch, this.UpdatedAt)
       IN  /\ ents' = [ents EXCEPT ![o] = this]
           /\ IF Validate(this) /= NoErr
              THEN /\ store' = store
                   /\ cache' = cache
                   /\ last' = [NoOp EXCEPT !.op = "Update", !.obj = o,
                                           !.err = Validate(this), !.patch = updates]
              ELSE \E r \in StoreUpdateId(this.ID, updates) :
                   /\ store' = r.store
                   /\ cache' = [k \in AllCacheKeys |-> NoEntry]
                   /\ last' = [NoOp EXCEPT !.op = "Update", !.obj = o, !.err = r.err,
                                           !.calls = <<"UpdateId">>, !.id = this.ID,
                                           !.patch = updates]
    /\ UNCHANGED <<now, nextId, calls, tasks>>

\* Server.Update, lines 76-92.
Update(o, patch) ==
    /\ ops < MaxCalls
    /\ ops' = ops + 1
    /\ LET this    == [ents[o] EXCEPT !.UpdatedAt = now]
           updates == MergeUpdatedAt(patch, this.UpdatedAt)
       IN  /\ ents' = [ents EXCEPT ![o] = this]
           /\ IF Validate(this) /= NoErr
              THEN /\ store' = store
                   /\ last' = [NoOp EXCEPT !.op = "Update", !.obj = o,
                                           !.err = Validate(this), !.patch = updates]
              ELSE \E r \in StoreUpdateId(this.ID, updates) :
                   /\ store' = r.store
                   /\ last' = [NoOp EXCEPT !.op = "Update", !.obj = o, !.err = r.err,
                                           !.calls = <<"UpdateId">>, !.id = this.ID,
                                           !.patch = updates]
    /\ UNCHANGED <<now, nextId, cache, calls, tasks>>

\* Faulty variant of Delete: the cache is emptied with the document.
DeletePurging(o) ==
    /\ ops < MaxCalls
    /\ ops' = ops + 1
    /\ \E r \in StoreRemoveId(ents[o].ID) :
           /\ store' = r.store
           /\ last' = [NoOp EXCEPT !.op = "Delete", !.obj = o, !.err = r.err,
                                   !.calls = <<"RemoveId">>, !.id = ents[o].ID]
    /\ cache' = [k \in AllCacheKeys |-> NoEntry]
    /\ UNCHANGED <<now, nextId, ents, calls, tasks>>

\* Server.Delete, lines 95-99.
Delete(o) ==
    /\ ops < MaxCalls
    /\ ops' = ops + 1
    /\ \E r \in StoreRemoveId(ents[o].ID) :
           /\ store' = r.store
           /\ last' = [NoOp EXCEPT !.op = "Delete", !.obj = o, !.err = r.err,
                                   !.calls = <<"RemoveId">>, !.id = ents[o].ID]
    /\ UNCHANGED <<now, nextId, ents, cache, calls, tasks>>

(***************************************************************************)
(* The lookup path CacheGetServer, lines 111-149, one action per blocking  *)
(* call to the cache or the store.                                         *)
(***************************************************************************)
\* Faulty variant of CacheErr: a failed read is taken for a miss.
CacheErrIgnored(rd) == FALSE

\* Lines 118 and 126: the read of the cache returned an error.
CacheErr(rd) == rd.err /= NoErr

\* Faulty variant of NegCacheHit: the negative entry is never honoured.
NegCacheHitNever(result) == FALSE

\* Line 120: the negative entry is present and non-empty.
NegCacheHit(result) == result /= EmptyString

\* Faulty variant of CacheHit: the positive entry is never honoured.
CacheHitNever(result) == FALSE

\* Line 128: the positive entry is present and non-empty.
CacheHit(result) == result /= EmptyString

\* Faulty variant of FillNegCond: the flag is not tested.
FillNegCondAlways(err, negCache) == err = ErrNotFound

\* Faulty variant of FillNegCond: the flag is tested the wrong way round.
FillNegCondInverted(err, negCache) == err = ErrNotFound /\ ~negCache

\* Line 141: the condition that starts fillNegCacheServer.
FillNegCond(err, negCache) == err = ErrNotFound /\ negCache

\* Line 145: the condition that starts fillCacheServer.
FillCacheCond(err) == err /= NoErr

\* Faulty variant of Filter: field and value are exchanged.
FilterSwapped(key, value) == <<value, key>>

\* Lines 136-138: the filter bson.M{key: value}.
Filter(key, value) == <<key, value>>

\* Faulty variant of Go: the task runs inside the call, before it returns.
GoInline(c, t) ==
    [tasks |-> tasks,
     cache |-> IF t.kind = "neg"
               THEN ClientSet(NegKey(t.key), NegValue, NegCacheTTL, t.src)
               ELSE ClientSet(t.key, Marshal(t.server), CacheTTL, t.src)]

\* The go statement of lines 142 and 146: the task of call c is started and
\* runs later; the cache is as it was when the call returns.
Go(c, t) == [tasks |-> [tasks EXCEPT ![c] = t], cache |-> cache]

\* Faulty variant of Return: the error is dropped.
ReturnNoError(c, call, server, err) ==
    [NoOp EXCEPT !.op = "Get", !.obj = c, !.err = NoErr, !.server = server, !.get = call]

\* return of (server, err) by the call of caller c.
Return(c, call, server, err) ==
    [NoOp EXCEPT !.op = "Get", !.obj = c, !.err = err, !.server = server, !.get = call]

\* A caller slot is free when it runs neither a call nor a call's task.
Free(c) == calls[c].pc = "idle" /\ tasks[c] = NoTask

\* Lines 111-117: a caller invokes CacheGetServer(key, value, negCache).  The
\* call takes the first free slot.
CacheGetServer(c, key, value, negCache) ==
    /\ ops < MaxCalls
    /\ ops' = ops + 1
    /\ Free(c)
    /\ \A b \in Callers : b < c => ~Free(b)
    /\ calls' = [calls EXCEPT ![c] =
                    [IdleCall EXCEPT !.pc = IF negCache THEN "neg" ELSE "pos",
                                     !.key = key, !.value = value,
                                     !.negCache = negCache,
                                     !.cacheKey = ServerCacheKey(key, value)]]
    /\ UNCHANGED <<now, nextId, ents, store, cache, tasks, last>>

\* Lines 118-122: the read of the negative entry.
ReadNegCache(c) ==
    /\ calls[c].pc = "neg"
    /\ \E rd \in ClientGet(NegKey(calls[c].cacheKey)) :
           LET call == [calls[c] EXCEPT !.negRes = rd]
           IN  IF CacheErr(rd)
               THEN /\ last' = Return(c, call, <<>>, rd.err)
                    /\ calls' = [calls EXCEPT ![c] = IdleCall]
               ELSE IF NegCacheHit(rd.result)
               THEN /\ last' = Return(c, call, <<>>, ErrNotFound)
                    /\ calls' = [calls EXCEPT ![c] = IdleCall]
               ELSE /\ last' = last
                    /\ calls' = [calls EXCEPT ![c] = [call EXCEPT !.pc = "pos"]]
    /\ UNCHANGED <<now, nextId, ents, store, cache, tasks, ops>>

\* Lines 126-132: the read of the positive entry.
ReadCache(c) ==
    /\ calls[c].pc = "pos"
    /\ \E rd \in ClientGet(calls[c].cacheKey) :
           LET call == [calls[c] EXCEPT !.posRes = rd]
               um   == Unmarshal(rd.result)
           IN  IF CacheErr(rd)
               THEN /\ last' = Return(c, call, <<>>, rd.err)
                    /\ calls' = [calls EXCEPT ![c] = IdleCall]
               ELSE IF CacheHit(rd.result)
               THEN /\ last' = Return(c, call, <<um.server>>, um.err)
                    /\ calls' = [calls EXCEPT ![c] = IdleCall]
               ELSE /\ last' = last
                    /\ calls' = [calls EXCEPT ![c] = [call EXCEPT !.pc = "store"]]
    /\ UNCHANGED <<now, nextId, ents, store, cache, tasks, ops>>

\* Lines 135-148: the store query, the start of a fill task, the return.
FindOne(c) ==
    /\ calls[c].pc = "store"
    /\ \E fr \in StoreFindOne(Filter(calls[c].key, calls[c].value)) :
           LET me == calls[c]
               t  == IF FillNegCond(fr.err, me.negCache)
                     THEN [kind |-> "neg", key |-> me.cacheKey, server |-> ZeroServer,
                           src |-> fr.err]
                     ELSE IF FillCacheCond(fr.err)
                     THEN [kind |-> "pos", key |-> me.cacheKey, server |-> fr.server,
                           src |-> fr.err]
                     ELSE NoTask
               g  == IF t = NoTask THEN [tasks |-> tasks, cache |-> cache] ELSE Go(c, t)
               call == [me EXCEPT !.storeRes = fr,
                                  !.queries = Append(@, Filter(me.key, me.value)),
                                  !.disp = IF t = NoTask THEN @ ELSE Append(@, t.kind)]
           IN  /\ last' = Return(c, call, <<fr.server>>, fr.err)
               /\ calls' = [calls EXCEPT ![c] = IdleCall]
               /\ tasks' = g.tasks
               /\ cache' = g.cache
    /\ UNCHANGED <<now, nextId, ents, store, ops>>

\* fillCacheServer, lines 151-159.  A serialization error is logged and the
\* write goes on with the empty string; a write error is logged.
fillCacheServer(c) ==
    /\ tasks[c].kind = "pos"
    /\ \E marshalErr \in BOOLEAN, setErr \in BOOLEAN :
           LET serialized == IF marshalErr THEN EmptyString ELSE Marshal(tasks[c].server)
           IN  cache' = IF setErr THEN cache
                        ELSE ClientSet(tasks[c].key, serialized, CacheTTL, tasks[c].src)
    /\ tasks' = [tasks EXCEPT ![c] = NoTask]
    /\ UNCHANGED <<now, nextId, ents, store, calls, last, ops>>

\* Faulty variant of fillNegCacheServer: the positive time to live is used.
fillNegCacheServerLong(c) ==
    /\ tasks[c].kind = "neg"
    /\ \E setErr \in BOOLEAN :
           cache' = IF setErr THEN cache
                    ELSE ClientSet(NegKey(tasks[c].key), NegValue, CacheTTL, tasks[c].src)
    /\ tasks' = [tasks EXCEPT ![c] = NoTask]
    /\ UNCHANGED <<now, nextId, ents, store, calls, last, ops>>

\* fillNegCacheServer, lines 161-165.
fillNegCacheServer(c) ==
    /\ tasks[c].kind = "neg"
    /\ \E setErr \in BOOLEAN :
           cache' = IF setErr THEN cache
                    ELSE ClientSet(NegKey(tasks[c].key), NegValue, NegCacheTTL,
                                   tasks[c].src)
    /\ tasks' = [tasks EXCEPT ![c] = NoTask]
    /\ UNCHANGED <<now, nextId, ents, store, calls, last, ops>>

\* The clock advances; the cache drops the entries whose time to live is over.
Tick ==
    /\ now < EndTime
    /\ now' = now + NegCacheTTL
    /\ cache' = [k \in AllCacheKeys |->
                    IF cache[k].exp <= now' THEN NoEntry ELSE cache[k]]
    /\ UNCHANGED <<nextId, ents, store, calls, tasks, last, ops>>

Next ==
    \/ \E o \in Objects, v \in DiscordIDs : Assign(o, v)
    \/ \E o \in Objects : Create(o)
    \/ \E o \in Objects, patch \in Patches : Update(o, patch)
    \/ \E o \in Objects : Delete(o)
    \/ \E c \in Callers, key \in LookupKeys, value \in LookupValues, negCache \in BOOLEAN :
           CacheGetServer(c, key, value, negCache)
    \/ \E c \in Callers : ReadNegCache(c)
    \/ \E c \in Callers : ReadCache(c)
    \/ \E c \in Callers : FindOne(c)
    \/ \E c \in Callers : fillCacheServer(c)
    \/ \E c \in Callers : fillNegCacheServer(c)
    \/ Tick

Spec == Init /\ [][Next]_vars

\* The repository alone.
NextRepo ==
    \/ \E o \in Objects, v \in DiscordIDs : Assign(o, v)
    \/ \E o \in Objects : Create(o)
    \/ \E o \in Objects, patch \in Patches : Update(o, patch)
    \/ \E o \in Objects : Delete(o)
    \/ Tick

SpecRepo == Init /\ [][NextRepo]_vars

\* The lookup path, over a store in which one object's document comes and goes.
Writer == CHOOSE o \in Objects : \A p \in Objects : o <= p

NextLookup ==
    \/ Create(Writer)
    \/ Delete(Writer)
    \/ \E c \in Callers, key \in LookupKeys, value \in LookupValues, negCache \in BOOLEAN :
           CacheGetServer(c, key, value, negCache)
    \/ \E c \in Callers : ReadNegCache(c)
    \/ \E c \in Callers : ReadCache(c)
    \/ \E c \in Callers : FindOne(c)
    \/ \E c \in Callers : fillCacheServer(c)
    \/ \E c \in Callers : fillNegCacheServer(c)
    \/ Tick

SpecLookup == Init /\ [][NextLookup]_vars

SpecLegacy == InitLegacy /\ [][NextLookup]_vars

\* The store outlives the process: at the start it holds the document of a
\* Server created earlier with another DiscordID, which the writer holds.
OtherServer ==
    [ID |-> NilId + 1, DiscordID |-> "A2", CreatedAt |-> StartTime, UpdatedAt |-> StartTime]

InitStale ==
    /\ now = StartTime
    /\ nextId = OtherServer.ID + 1
    /\ ents = [o \in Objects |-> IF o = Writer THEN OtherServer ELSE NewServer]
    /\ store = {ToBSON(OtherServer)}
    /\ cache = [k \in AllCacheKeys |-> NoEntry]
    /\ calls = [c \in Callers |-> IdleCall]
    /\ tasks = [c \in Callers |-> NoTask]
    /\ last = NoOp
    /\ ops = 0

\* Update documents that give the document a DiscordID that is looked up.
Renames == {"$set" :> ("discord_id" :> v) : v \in LookupValues}

\* The lookup path beside a writer that creates, renames and deletes.
NextStale ==
    \/ Create(Writer)
    \/ \E patch \in Renames : Update(Writer, patch)
    \/ Delete(Writer)
    \/ \E c \in Callers, key \in LookupKeys, value \in LookupValues, negCache \in BOOLEAN :
           CacheGetServer(c, key, value, negCache)
    \/ \E c \in Callers : ReadNegCache(c)
    \/ \E c \in Callers : ReadCache(c)
    \/ \E c \in Callers : FindOne(c)
    \/ \E c \in Callers : fillCacheServer(c)
    \/ \E c \in Callers : fillNegCacheServer(c)
    \/ Tick

SpecStale == InitStale /\ [][NextStale]_vars

\* The construction of the cache key alone, for the entity types of the
\* package in the databases of a client, with any field and value strings.
ServerMemberColName  == "server_members"
ModelTemplateColName == "model_templates"

ColNames == {ServerColName, ServerMemberColName, ModelTemplateColName}
DBNames  == {ServerDBName, ServerDBName \o "_test"}
LookupStrings == {"discord_id", "A1", "A1:A1"}

\* Line 114 (server_member.go:122, model_template.go:269) in a call of the
\* lookup of the entity type with collection col in database db.
BuildCacheKey(c, db, col, key, value) ==
    /\ calls[c].pc = "idle"
    /\ calls' = [calls EXCEPT ![c] =
                    [pc |-> "key", client |-> ServerClientName, db |-> db, col |-> col,
                     key |-> key, value |-> value,
                     cacheKey |-> CacheKeyOf(ServerClientName, db, col, key, value)]]
    /\ UNCHANGED <<now, nextId, ents, store, cache, tasks, last, ops>>

NextKeys ==
    \E c \in Callers, db \in DBNames, col \in ColNames,
       key \in LookupStrings, value \in LookupStrings :
        BuildCacheKey(c, db, col, key, value)

SpecKeys == Init /\ [][NextKeys]_vars

\* The repository used for two objects at a time.
Pair == {Writer, Writer + MaxObjects}

InitPair ==
    /\ now = StartTime
    /\ nextId = 1
    /\ ents = [o \in Pair |-> NewServer]
    /\ store = {}
    /\ cache = [k \in AllCacheKeys |-> NoEntry]
    /\ calls = [c \in Callers |-> IdleCall]
    /\ tasks = [c \in Callers |-> NoTask]
    /\ last = NoOp
    /\ ops = 0

NextPair ==
    \/ \E o \in Pair : Create(o)
    \/ \E o \in Pair, patch \in Patches : Update(o, patch)
    \/ \E o \in Pair : Delete(o)

SpecPair == InitPair /\ [][NextPair]_vars

(***************************************************************************)
(* Vocabulary of the properties.                                           *)
(***************************************************************************)
\* The most recent return is that of a CacheGetServer call.
GetReturned == last.op = "Get"

\* What a read of the cache yields when the key holds nothing.
Miss == [err |-> NoErr, result |-> EmptyString]

\* The returned call read a non-empty negative entry.
NegHit ==
    /\ GetReturned /\ last.get.negCache
    /\ last.get.negRes.err = NoErr /\ last.get.negRes.result /= EmptyString

\* The returned call read a non-empty positive entry.
PosHit ==
    /\ GetReturned
    /\ last.get.posRes.err = NoErr /\ last.get.posRes.result /= EmptyString

\* The returned call missed at every read it made, without an error.
FullMiss ==
    /\ GetReturned
    /\ last.get.negRes = IF last.get.negCache THEN Miss ELSE Unread
    /\ last.get.posRes = Miss

\* The returned call sent no query to the store and started no task.
NoStoreNoTask ==
    /\ last.get.queries = <<>>
    /\ last.get.storeRes = NotQueried
    /\ last.get.disp = <<>>

\* A Server that the required-field validation rejects.
FailsValidate(s) ==
    \/ s.ID = NilId \/ s.DiscordID = ""
    \/ s.CreatedAt = ZeroTime \/ s.UpdatedAt = ZeroTime

\* A step of CacheGetServer, from the invocation to the return.
GetStep ==
    \/ \E c \in Callers, key \in LookupKeys, value \in LookupValues, negCache \in BOOLEAN :
           CacheGetServer(c, key, value, negCache)
    \/ \E c \in Callers : ReadNegCache(c) \/ ReadCache(c) \/ FindOne(c)

\* A step of a background fill task.
FillStep == \E c \in Callers : fillCacheServer(c) \/ fillNegCacheServer(c)

(***************************************************************************)
(* C1.  A CacheGetServer call whose store query finds the document starts  *)
(* the task that writes the serialized Server under the positive key.      *)
(***************************************************************************)
C1_FoundStartsPositiveFill ==
    (GetReturned /\ last.get.storeRes.err = NoErr /\ last.get.queries /= <<>>)
        => last.get.disp = <<"pos">>

(***************************************************************************)
(* C2.  Every positive cache entry holds the serialized Server of a store  *)
(* query that found a document; a call whose query returned not-found or a *)
(* store error starts no positive fill.                                    *)
(***************************************************************************)
C2_PositiveEntriesComeFromFound ==
    /\ \A k \in PosKeys : cache[k].val /= EmptyString => cache[k].src = NoErr
    /\ \A c \in Callers : tasks[c].kind = "pos" => tasks[c].src = NoErr
    /\ (GetReturned /\ last.get.disp = <<"pos">>) => last.get.storeRes.err = NoErr

(***************************************************************************)
(* C3.  A call with negCache that reads a non-empty negative entry returns *)
(* (nil, not found) at once: no read of the positive entry, no store       *)
(* query, no task.                                                         *)
(***************************************************************************)
C3_NegativeHitShortCircuits ==
    NegHit => /\ last.err = ErrNotFound
              /\ last.server = <<>>
              /\ last.get.posRes = Unread
              /\ NoStoreNoTask

\* The short circuit happened while the store holds a matching document.
C3_Witness ==
    /\ NegHit
    /\ Matching(last.get.key, last.get.value) /= {}

\* The parts of C4.
C4_Inv ==
    /\ (GetReturned /\ last.get.negCache /\ last.get.storeRes.err = ErrNotFound)
          => /\ last.err = ErrNotFound
             /\ last.get.disp = <<"neg">>
    /\ \A k \in PosKeys :
          cache[NegKey(k)] /= NoEntry
              => /\ cache[NegKey(k)].val = NegValue
                 /\ now < cache[NegKey(k)].exp
                 /\ cache[NegKey(k)].exp <= now + NegCacheTTL

C4_Act ==
    \A c \in Callers :
        (/\ ReadNegCache(c)
         /\ Stored(NegKey(calls[c].cacheKey)) = NegValue
         /\ last'.get.negRes.err = NoErr)
            => /\ last'.op = "Get" /\ last'.obj = c
               /\ last'.err = ErrNotFound
               /\ last'.get.queries = <<>>

\* The negative fill writes "neg" with the negative time to live.
C4_Write ==
    \A c \in Callers :
        (fillNegCacheServer(c) /\ cache' /= cache)
            => /\ cache'[NegKey(tasks[c].key)].val = NegValue
               /\ cache'[NegKey(tasks[c].key)].exp = now + NegCacheTTL

\* A live negative entry lasts until its time to live is over.
C4_Lasts ==
    \A k \in PosKeys :
        (cache[NegKey(k)] /= NoEntry /\ now' < cache[NegKey(k)].exp)
            => cache'[NegKey(k)].val = NegValue

(***************************************************************************)
(* C4.  A call with negCache whose store query reports not-found returns   *)
(* not found and starts the negative fill; the fill writes "neg" with the  *)
(* negative time to live; a call with negCache that then reads the live    *)
(* entry returns not found without a store query.                          *)
(***************************************************************************)
C4_NegativeCaching == []C4_Inv /\ [][C4_Act /\ C4_Write /\ C4_Lasts]_vars

\* The second call was answered from the negative entry the first one wrote.
C4_Witness ==
    /\ NegHit
    /\ last.err = ErrNotFound /\ last.get.queries = <<>>
    /\ cache[NegKey(last.get.cacheKey)].src = ErrNotFound

(***************************************************************************)
(* C5.  A call that reads a non-empty positive entry returns the Server    *)
(* that was serialized into the entry, without error, store query or task. *)
(***************************************************************************)
C5_PositiveHitReturnsEntry ==
    PosHit => /\ last.err = NoErr
              /\ Len(last.server) = 1
              /\ Marshal(last.server[1]) = last.get.posRes.result
              /\ NoStoreNoTask

\* The hit, after the negative read of the same call missed.
C5_Witness ==
    /\ PosHit /\ last.get.negCache
    /\ last.get.negRes = Miss
    /\ last.err = NoErr

(***************************************************************************)
(* C6.  An error of a cache read, or a payload that does not deserialize,  *)
(* is returned as the error: no store query, no task.                      *)
(***************************************************************************)
C6_CacheErrorsSurface ==
    /\ (GetReturned /\ last.get.negRes.err = CacheError)
          => /\ last.err = CacheError /\ last.server = <<>>
             /\ last.get.posRes = Unread
             /\ NoStoreNoTask
    /\ (GetReturned /\ last.get.posRes.err = CacheError)
          => /\ last.err = CacheError /\ last.server = <<>>
             /\ NoStoreNoTask
    /\ (PosHit /\ ~IsServerJSON(last.get.posRes.result))
          => /\ last.err = UnmarshalError
             /\ NoStoreNoTask

\* A payload that does not deserialize was read after the negative read missed.
C6_Witness ==
    /\ PosHit /\ last.get.negRes = Miss
    /\ ~IsServerJSON(last.get.posRes.result)
    /\ last.err = UnmarshalError

\* The parts of C7.
C7_Inv ==
    /\ \A c \in Callers : calls[c].queries = <<>>
    /\ GetReturned =>
          /\ Len(last.get.queries) <= 1
          /\ (last.get.queries /= <<>>) <=> FullMiss
          /\ (last.get.storeRes /= NotQueried) <=> FullMiss
          /\ \A i \in DOMAIN last.get.queries :
                 last.get.queries[i] = <<last.get.key, last.get.value>>

C7_Act == GetStep => store' = store

(***************************************************************************)
(* C7.  A call sends at most one query to the store, and sends it exactly  *)
(* on a full miss; the query is the filter {key: value}; no step of the    *)
(* call changes the store.                                                 *)
(***************************************************************************)
C7_OneQueryOnFullMiss == []C7_Inv /\ [][C7_Act]_vars

\* A query was sent after both reads missed.
C7_Witness ==
    /\ FullMiss /\ last.get.negCache
    /\ Len(last.get.queries) = 1

\* The parts of C8.
C8_Inv ==
    (GetReturned /\ last.get.queries /= <<>>)
        => /\ last.err = last.get.storeRes.err
           /\ last.server = <<last.get.storeRes.server>>

C8_Act ==
    /\ \A c \in Callers :
          FindOne(c) => /\ cache' = cache
                        /\ last'.get.disp /= <<>> => tasks'[c] /= NoTask
    /\ FillStep => (last' = last /\ calls' = calls)

(***************************************************************************)
(* C8.  The call returns when the task is started, not when it has run:    *)
(* the step that returns leaves the cache as it is, what it returns is the *)
(* result of the store query, and no step of a task changes what a call    *)
(* returned or what a call in progress holds.                              *)
(***************************************************************************)
C8_ReturnsBeforePopulation == []C8_Inv /\ [][C8_Act]_vars

\* The call has returned, its task has not run, the cache holds nothing.
C8_Witness ==
    /\ GetReturned /\ last.get.disp /= <<>>
    /\ tasks[last.obj] /= NoTask
    /\ tasks[last.obj].key = last.get.cacheKey
    /\ \A k \in AllCacheKeys : cache[k] = NoEntry

\* The parts of C9.
C9_Act ==
    \A o \in Objects :
        ((Create(o) \/ \E patch \in Patches : Update(o, patch)) /\ FailsValidate(ents'[o]))
            => /\ last'.err = ValidationError
               /\ last'.calls = <<>>
               /\ store' = store

(***************************************************************************)
(* C9.  Create and Update of a Server that fails validation return the     *)
(* validation error, call no store method and leave the store as it is.    *)
(***************************************************************************)
C9_InvalidNeverStored == [][C9_Act]_vars

\* An Update of an invalid Server was refused while the store holds a document.
C9_Witness ==
    /\ last.op = "Update" /\ FailsValidate(ents[last.obj])
    /\ last.err = ValidationError
    /\ store /= {}

\* The parts of C10.
C10_Act ==
    \A o \in Objects :
        (Create(o) /\ ~FailsValidate(ents'[o]))
            => LET e == ents'[o] IN
               /\ e.ID /= NilId
               /\ \A d \in store : d._id /= e.ID
               /\ e.CreatedAt = now /\ e.UpdatedAt = now
               /\ last'.err \in {NoErr, StoreError}
               /\ last'.err = NoErr =>
                     /\ Cardinality(store') = Cardinality(store) + 1
                     /\ \E d \in store' :
                            /\ store' = store \cup {d}
                            /\ d._id = e.ID /\ d.discord_id = e.DiscordID
                            /\ d.created_at = now /\ d.updated_at = now
               /\ last'.err = StoreError => store' = store

(***************************************************************************)
(* C10.  Create of a valid Server gives it an identifier that is not empty *)
(* and not that of a stored document, and sets CreatedAt = UpdatedAt = now; *)
(* when it succeeds the store has gained exactly the document with that    *)
(* identifier and those timestamps; otherwise it returns the store error.  *)
(***************************************************************************)
C10_CreateAssignsAndInserts == [][C10_Act]_vars

\* A second Create succeeded while the store already held a document.
C10_Witness ==
    /\ last.op = "Create" /\ last.err = NoErr
    /\ Cardinality(store) = 2
    /\ \E d \in store : d._id = ents[last.obj].ID /\ d.created_at = d.updated_at

\* The parts of C11.
C11_Inv == \A d1 \in store, d2 \in store : d1._id = d2._id => d1 = d2

C11_Act ==
    \A o \in Objects : ents[o].ID /= NilId => ents'[o].ID = ents[o].ID

(***************************************************************************)
(* C11.  Under every sequence of Create, Update and Delete, also a Create  *)
(* repeated on one object and a Create that fails, the ID of an object is  *)
(* never changed once it is assigned, and no two stored documents have the *)
(* same _id.                                                               *)
(***************************************************************************)
C11_IdentifierAssignedOnce == []C11_Inv /\ [][C11_Act]_vars

\* The parts of C12.
C12_Inv ==
    /\ \A o \in Objects : ents[o].UpdatedAt >= ents[o].CreatedAt
    /\ \A d \in store : d.updated_at >= d.created_at

C12_Act ==
    /\ \A o \in Objects :
          ents[o].CreatedAt /= ZeroTime => ents'[o].CreatedAt = ents[o].CreatedAt
    /\ \A d \in store, e \in store' :
          e._id = d._id => e.created_at = d.created_at

(***************************************************************************)
(* C12.  After every sequence of Create and Update with any update         *)
(* documents, under a clock that never goes back, UpdatedAt >= CreatedAt   *)
(* holds of every object and of every stored document, and CreatedAt,      *)
(* once set by Create, is never changed in either.                         *)
(***************************************************************************)
C12_UpdatedNotBeforeCreated == []C12_Inv /\ [][C12_Act]_vars

\* A step of Create, Update or Delete.
MutationStep ==
    \E o \in Objects :
        \/ Create(o)
        \/ \E patch \in Patches \cup Renames : Update(o, patch)
        \/ Delete(o)

\* The parts of C13.
C13_Act == MutationStep => (cache' = cache /\ tasks' = tasks)

(***************************************************************************)
(* C13.  No step of Create, Update or Delete, successful or not, writes,   *)
(* refreshes or removes a cache entry, positive or negative, or starts a   *)
(* task that would.                                                        *)
(***************************************************************************)
C13_MutationsLeaveCache == [][C13_Act]_vars

\* An Update succeeded and the negative entry its document contradicts is
\* still in the cache.
C13_Witness ==
    /\ last.op = "Update" /\ last.err = NoErr
    /\ \E k \in LookupKeys, v \in LookupValues :
          /\ Matching(k, v) /= {}
          /\ cache[NegKey(ServerCacheKey(k, v))].val = NegValue

\* The time to live of the entries under a key.
TTLOf(k) == IF k \in PosKeys THEN CacheTTL ELSE NegCacheTTL

\* The instant at which the entry under key k was written.
WrittenAt(k) == cache[k].exp - TTLOf(k)

\* A step of Update or Delete.
UpdateOrDeleteStep ==
    \E o \in Objects :
        \/ \E patch \in Patches \cup Renames : Update(o, patch)
        \/ Delete(o)

\* The parts of C14.  Update, Delete and the clock leave every entry whose
\* time to live is not over as it is.
C14_Kept ==
    (UpdateOrDeleteStep \/ Tick)
        => \A k \in AllCacheKeys :
               (cache[k] /= NoEntry /\ now' < cache[k].exp) => cache'[k] = cache[k]

\* A read of an entry whose time to live is not over returns the entry,
\* whatever the store holds, unless the read itself fails.
C14_Retrieved ==
    \A c \in Callers :
        /\ (ReadNegCache(c) /\ Stored(NegKey(calls[c].cacheKey)) /= EmptyString)
               => /\ calls'[c].pc = "idle" /\ last'.op = "Get" /\ last'.obj = c
                  /\ last'.get.queries = <<>>
                  /\ \/ last'.err = CacheError /\ last'.get.negRes.err = CacheError
                     \/ last'.err = ErrNotFound /\ last'.get.negRes.err = NoErr
        /\ (ReadCache(c) /\ Stored(calls[c].cacheKey) /= EmptyString)
               => /\ calls'[c].pc = "idle" /\ last'.op = "Get" /\ last'.obj = c
                  /\ last'.get.queries = <<>>
                  /\ \/ last'.err = CacheError /\ last'.get.posRes.err = CacheError
                     \/ /\ last'.get.posRes.err = NoErr
                        /\ last'.err = Unmarshal(cache[calls[c].cacheKey].val).err
                        /\ last'.server = <<Unmarshal(cache[calls[c].cacheKey].val).server>>

\* A call that reaches the store returns what the store holds now.
C14_Fresh ==
    \A c \in Callers :
        FindOne(c) => /\ last'.err = NoErr => ToBSON(last'.server[1]) \in store
                      /\ last'.err = ErrNotFound
                            => Matching(calls[c].key, calls[c].value) = {}

\* An entry is read only while its time to live, counted from its write, is
\* not over.
C14_Live ==
    \A k \in AllCacheKeys :
        cache[k] /= NoEntry => (WrittenAt(k) <= now /\ now < WrittenAt(k) + TTLOf(k))

\* A stale not-found comes from an entry that was there when the document
\* was updated.
C14_FromBefore ==
    \A c \in Callers :
        (/\ ReadNegCache(c)
         /\ Stored(NegKey(calls[c].cacheKey)) /= EmptyString
         /\ last'.err = ErrNotFound)
            => \A d \in Matching(calls[c].key, calls[c].value) :
                   WrittenAt(NegKey(calls[c].cacheKey)) <= d.updated_at

(***************************************************************************)
(* C14 as stated.  An entry written before an Update or Delete stays and   *)
(* is returned by CacheGetServer until its time to live is over; and once  *)
(* the entries that were there at the time of the Update or Delete are     *)
(* gone, no call returns what the store held before it.                    *)
(***************************************************************************)
C14_StaleOnlyFromEntriesAtMutation ==
    []C14_Live /\ [][C14_Kept /\ C14_Retrieved /\ C14_Fresh /\ C14_FromBefore]_vars

(***************************************************************************)
(* C14, amended.  An entry written before an Update or Delete stays and is *)
(* returned by CacheGetServer until its time to live is over; what the     *)
(* store no longer holds is returned only from an entry, for at most the   *)
(* time to live after the entry was written, and a call that misses the    *)
(* cache returns what the store holds now.                                 *)
(***************************************************************************)
C14_StaleUntilExpiry ==
    []C14_Live /\ [][C14_Kept /\ C14_Retrieved /\ C14_Fresh]_vars

\* After an Update gave the document the DiscordID, a call was answered not
\* found from the negative entry written before the Update.
C14_Witness ==
    /\ NegHit /\ last.err = ErrNotFound
    /\ cache[NegKey(last.get.cacheKey)].val = NegValue
    /\ \E d \in Matching(last.get.key, last.get.value) :
          /\ d.updated_at > d.created_at
          /\ WrittenAt(NegKey(last.get.cacheKey)) <= d.updated_at

\* The parts of C15.
C15_Inv ==
    /\ NegCacheTTL < CacheTTL
    /\ \A k \in AllCacheKeys :
          cache[k] /= NoEntry => (now < cache[k].exp /\ cache[k].exp <= now + TTLOf(k))

\* The fills write with the time to live of their kind.
C15_Write ==
    \A c \in Callers :
        /\ (fillCacheServer(c) /\ cache'[tasks[c].key] \notin {NoEntry, cache[tasks[c].key]})
               => /\ cache'[tasks[c].key].exp = now + CacheTTL
                  /\ CacheTTL = 120
        /\ (fillNegCacheServer(c)
                /\ cache'[NegKey(tasks[c].key)] \notin {NoEntry, cache[NegKey(tasks[c].key)]})
               => /\ cache'[NegKey(tasks[c].key)].exp = now + NegCacheTTL
                  /\ NegCacheTTL = 60

\* When the clock passes the expiry of an entry, the key reads as absent.
C15_Expire ==
    Tick => \A k \in AllCacheKeys : now' >= cache[k].exp => Stored(k)' = EmptyString

\* A read of an absent key that does not fail takes the call one step
\* further, to the positive read and then to the store.
C15_FallThrough ==
    \A c \in Callers :
        /\ (ReadNegCache(c) /\ Stored(NegKey(calls[c].cacheKey)) = EmptyString)
               => \/ calls'[c].pc = "pos" /\ last' = last
                  \/ calls'[c].pc = "idle" /\ last'.err = CacheError
        /\ (ReadCache(c) /\ Stored(calls[c].cacheKey) = EmptyString)
               => \/ calls'[c].pc = "store" /\ last' = last
                  \/ calls'[c].pc = "idle" /\ last'.err = CacheError

(***************************************************************************)
(* C15.  A positive entry is written with CacheTTL (120 s), a negative one *)
(* with the shorter NegCacheTTL (60 s); when that time is over the key is  *)
(* absent, and a call that reads it without a cache error goes on to the   *)
(* store instead of returning the entry.                                   *)
(***************************************************************************)
C15_ExpiryHonored == []C15_Inv /\ [][C15_Write /\ C15_Expire /\ C15_FallThrough]_vars

\* After the first time to live was over a call missed at both reads, queried
\* the store and had the negative entry written again.
C15_Witness ==
    /\ FullMiss /\ last.get.negCache
    /\ last.get.storeRes.err = ErrNotFound /\ last.get.disp = <<"neg">>
    /\ now >= StartTime + NegCacheTTL
    /\ cache[NegKey(last.get.cacheKey)].exp = now + NegCacheTTL

\* The parts of C16.
C16_Inv ==
    (GetReturned /\ last.get.queries /= <<>>
        /\ last.get.storeRes.err \in {StoreError, ErrNotFound})
        => /\ last.err = last.get.storeRes.err
           /\ last.err /= NoErr

C16_Act ==
    \A c \in Callers :
        FindOne(c)
            => /\ last'.op = "Get" /\ last'.obj = c
               /\ last'.err \in {NoErr, ErrNotFound, StoreError}
               /\ last'.err = ErrNotFound
                     <=> last'.get.storeRes.err = ErrNotFound
               /\ last'.err = StoreError
                     <=> last'.get.storeRes.err = StoreError
               /\ Matching(calls[c].key, calls[c].value) = {} => last'.err /= NoErr

(***************************************************************************)
(* C16.  A call whose store query fails with an error other than not found *)
(* returns that error, and one whose query reports not found returns not   *)
(* found; in neither case does the call return without error.              *)
(***************************************************************************)
C16_StoreFailuresSurface == []C16_Inv /\ [][C16_Act]_vars

\* The query failed while the store holds the document, and the call
\* returned the store's error.
C16_Witness ==
    /\ FullMiss /\ last.get.storeRes.err = StoreError
    /\ last.err = StoreError
    /\ Matching(last.get.key, last.get.value) /= {}

\* The parts of C17.  The operators and the "$set" fields of a document.
SetOf(updates) == IF "$set" \in DOMAIN updates THEN updates["$set"] ELSE EmptyMap

C17_Act ==
    \A o \in Objects, patch \in Patches :
        (Update(o, patch) /\ ~FailsValidate(ents'[o]))
            => LET sent == last'.patch IN
               /\ last'.calls = <<"UpdateId">>
               /\ last'.id = ents[o].ID
               /\ DOMAIN sent = DOMAIN patch \cup {"$set"}
               /\ \A op \in DOMAIN patch : op /= "$set" => sent[op] = patch[op]
               /\ DOMAIN sent["$set"] = DOMAIN SetOf(patch) \cup {"updated_at"}
               /\ sent["$set"]["updated_at"] = now
               /\ \A f \in DOMAIN SetOf(patch) :
                      f /= "updated_at" => sent["$set"][f] = patch["$set"][f]
               /\ \A d \in store : d._id /= ents[o].ID => d \in store'
               /\ \A d \in store' : d._id /= ents[o].ID => d \in store

(***************************************************************************)
(* C17.  Update passes the caller's update document to UpdateId with the   *)
(* ID of the object, not wrapped in "$set": every operator and every field *)
(* of it is sent as given, except that "$set" (made when absent) carries   *)
(* updated_at = now in place of any updated_at the caller gave; documents  *)
(* with another _id are left as they are.                                  *)
(***************************************************************************)
C17_PatchSentAsIs == [][C17_Act]_vars

\* An Update with an "$unset" document took effect: "$set" was made for
\* updated_at and the field was removed.
C17_Witness ==
    /\ last.op = "Update" /\ last.err = NoErr
    /\ DOMAIN last.patch = {"$set", "$unset"}
    /\ \E d \in store : d._id = last.id /\ d.discord_id = "" /\ d.updated_at = now

\* The calls that have built their cache key.
Keyed == {c \in Callers : calls[c].pc = "key"}

(***************************************************************************)
(* C18.  The cache key is a function of client, database, collection,      *)
(* field and value: two calls with the same five build the same key, and   *)
(* two calls whose collection (entity type) or database differ build       *)
(* different keys, whatever the field and value strings are.               *)
(***************************************************************************)
C18_CacheKeysSeparateTypes ==
    \A c1 \in Keyed, c2 \in Keyed :
        /\ (/\ calls[c1].db = calls[c2].db /\ calls[c1].col = calls[c2].col
            /\ calls[c1].key = calls[c2].key /\ calls[c1].value = calls[c2].value)
              => calls[c1].cacheKey = calls[c2].cacheKey
        /\ (calls[c1].db /= calls[c2].db \/ calls[c1].col /= calls[c2].col)
              => calls[c1].cacheKey /= calls[c2].cacheKey

\* Two entity types were looked up by the same field and value, a value
\* that holds the separator.
C18_Witness ==
    \E c1 \in Keyed, c2 \in Keyed :
        /\ calls[c1].col = ServerColName /\ calls[c2].col = ServerMemberColName
        /\ calls[c1].db = calls[c2].db
        /\ calls[c1].key = calls[c2].key
        /\ calls[c1].value = "A1:A1" /\ calls[c2].value = "A1:A1"
        /\ calls[c1].cacheKey /= calls[c2].cacheKey

\* The parts of C19.
C19_Inv ==
    /\ \A k \in PosKeys : cache[NegKey(k)] /= NoEntry => cache[NegKey(k)].src = ErrNotFound
    /\ \A c \in Callers : tasks[c].kind = "neg" => tasks[c].src = ErrNotFound
    /\ \A c \in Callers : ~calls[c].negCache => calls[c].negRes = Unread
    /\ (GetReturned /\ last.get.disp = <<"neg">>)
          => (last.get.negCache /\ last.get.storeRes.err = ErrNotFound)
    /\ (GetReturned /\ ~last.get.negCache)
          => (last.get.negRes = Unread /\ last.get.disp /= <<"neg">>)

\* A negative entry is written by a negative fill only, and a negative fill
\* is started only by a call with negCache whose query reported not found.
C19_Act ==
    /\ \A k \in PosKeys :
          (cache'[NegKey(k)] /= cache[NegKey(k)] /\ cache'[NegKey(k)] /= NoEntry)
              => \E c \in Callers :
                     fillNegCacheServer(c) /\ tasks[c].kind = "neg" /\ tasks[c].key = k
    /\ \A c \in Callers :
          (tasks'[c].kind = "neg" /\ tasks[c] = NoTask)
              => /\ FindOne(c) /\ calls[c].negCache
                 /\ last'.get.storeRes.err = ErrNotFound
    /\ \A c \in Callers : ReadNegCache(c) => calls[c].negCache

(***************************************************************************)
(* C19.  Every negative entry was written for a call with negCache whose   *)
(* store query reported not found; a call without negCache does not read   *)
(* the negative entry, so that the entry does not change what it returns,  *)
(* and starts no negative fill.                                            *)
(***************************************************************************)
C19_NegativeOnlyOnRequest == []C19_Inv /\ [][C19_Act]_vars

\* A call without negCache found the document in the store while the
\* negative entry of its key was in the cache.
C19_Witness ==
    /\ GetReturned /\ ~last.get.negCache
    /\ last.get.queries /= <<>> /\ last.err = NoErr
    /\ cache[NegKey(last.get.cacheKey)].val = NegValue

\* The parts of C20.  Two calls for the same key have both missed the cache
\* and the first of them queries the store.
C20_Act ==
    \A c1 \in Callers, c2 \in Callers :
        (/\ c1 /= c2
         /\ calls[c1].pc = "store" /\ calls[c2].pc = "store"
         /\ calls[c1].cacheKey = calls[c2].cacheKey
         /\ FindOne(c1))
            => /\ last'.op = "Get" /\ last'.obj = c1
               /\ last'.get.queries = <<Filter(calls[c1].key, calls[c1].value)>>
               /\ last'.err = last'.get.storeRes.err
               /\ last'.server = <<last'.get.storeRes.server>>
               /\ last'.get.storeRes \in StoreFindOne(Filter(calls[c1].key, calls[c1].value))
               /\ tasks'[c1].kind \in {"pos", "neg"}
               /\ tasks'[c1].key = calls[c1].cacheKey
               /\ calls'[c2] = calls[c2] /\ tasks'[c2] = tasks[c2]
               /\ cache' = cache

(***************************************************************************)
(* C20.  Two calls in progress for the same key and value that have both   *)
(* missed the cache each send their own query to the store, each return    *)
(* the result of their own query and each start their own fill task; the   *)
(* cache holds one entry under a key whatever the tasks write.             *)
(***************************************************************************)
C20_NoSingleFlight == [](DOMAIN cache = AllCacheKeys) /\ [][C20_Act]_vars

\* The store calls that Create, Update and Delete of object o send in this
\* state, Create with the new identifier id.
StoreCallsOf(o, id) ==
    LET created == [ents[o] EXCEPT !.ID = id, !.CreatedAt = now, !.UpdatedAt = now]
        updated == [ents[o] EXCEPT !.UpdatedAt = now]
    IN  (IF Validate(created) = NoErr
         THEN {[m |-> "Insert", id |-> id, doc |-> ToBSON(created), updates |-> EmptyMap]}
         ELSE {})
        \cup (IF Validate(updated) = NoErr
              THEN {[m |-> "UpdateId", id |-> updated.ID, doc |-> ToBSON(updated),
                     updates |-> MergeUpdatedAt(patch, now)] : patch \in Patches}
              ELSE {})
        \cup {[m |-> "RemoveId", id |-> ents[o].ID, doc |-> ToBSON(ents[o]),
                updates |-> EmptyMap]}

\* The outcomes of store call x on a collection that holds the documents st.
Do(st, x) ==
    CASE x.m = "Insert"   -> InsertInto(st, x.doc)
      [] x.m = "UpdateId" -> UpdateIdIn(st, x.id, x.updates)
      [] x.m = "RemoveId" -> RemoveIdFrom(st, x.id)

\* The identifier the generator gives to the first and to the second of two
\* Creates in progress.
FreshFor(o) == IF o = Writer THEN nextId ELSE nextId + 1

\* The parts of C21.  The calls of two objects with different identifiers,
\* run in one order with some outcomes, can be run in the other order with
\* the same result for each call and the same documents in the end.
C21_Inv ==
    \A o1 \in Pair : \A o2 \in Pair \ {o1} :
        \A x \in StoreCallsOf(o1, FreshFor(o1)), y \in StoreCallsOf(o2, FreshFor(o2)) :
            x.id /= y.id
                => \A rx \in Do(store, x) : \A ry \in Do(rx.store, y) :
                       \E ry2 \in Do(store, y) : \E rx2 \in Do(ry2.store, x) :
                           /\ rx2.err = rx.err /\ ry2.err = ry.err
                           /\ rx2.store = ry.store

\* A step of Create, Update or Delete of object o is one store call of o at
\* most; it leaves the other object and the documents of other identifiers
\* as they are.
C21_Act ==
    \A o \in Pair :
        (Create(o) \/ (\E patch \in Patches : Update(o, patch)) \/ Delete(o))
            => /\ \A q \in Pair \ {o} : ents'[q] = ents[q]
               /\ \A d \in store \cup store' :
                      d._id /= last'.id => (d \in store /\ d \in store')
               /\ last'.calls = <<>> => store' = store
               /\ last'.calls /= <<>>
                     => \E x \in StoreCallsOf(o, nextId) :
                            /\ x.m = last'.calls[1] /\ x.id = last'.id
                            /\ \E r \in Do(store, x) :
                                   store' = r.store /\ last'.err = r.err

(***************************************************************************)
(* C21.  Create, Update and Delete of objects with different identifiers   *)
(* are independent: each is one call to the store that touches the         *)
(* document of its own identifier only, so the calls of two objects give   *)
(* the same results and the same documents in either order, and so in      *)
(* every interleaving.                                                     *)
(***************************************************************************)
C21_DifferentEntitiesIndependent == []C21_Inv /\ [][C21_Act]_vars

\* Both objects have their documents in the store and one of them was
\* updated.
C21_Witness ==
    /\ last.op = "Update" /\ last.err = NoErr
    /\ \A o \in Pair : \E d \in store : d._id = ents[o].ID
    /\ \E o1 \in Pair, o2 \in Pair : ents[o1].ID /= ents[o2].ID

(***************************************************************************)
(* C22.  A Server returned without error is a document of the store that   *)
(* matched the lookup: it has an identifier and the value looked up.  In   *)
(* particular no call returns the zero Server without error, also after a  *)
(* call whose store query reported not found or failed.                    *)
(***************************************************************************)
C22_ReturnedEntityWasStored ==
    (GetReturned /\ last.err = NoErr)
        => /\ Len(last.server) = 1
           /\ last.server[1] /= ZeroServer
           /\ last.server[1].ID /= NilId
           /\ last.server[1].DiscordID = last.get.value

\* The parts of C23.
C23_Inv ==
    /\ \A c \in Callers : calls[c].disp = <<>>
    /\ GetReturned =>
          /\ Len(last.get.disp) <= 1
          /\ last.get.disp \in {<<>>, <<"pos">>, <<"neg">>}
          /\ last.get.disp /= <<>> => (FullMiss /\ Len(last.get.queries) = 1)
          /\ (NegHit \/ PosHit) => last.get.disp = <<>>
          /\ (last.get.negRes.err = CacheError \/ last.get.posRes.err = CacheError)
                => last.get.disp = <<>>

\* The steps that start and run tasks.
C23_Act ==
    /\ \A c \in Callers :
          (CacheGetServer(c, calls'[c].key, calls'[c].value, calls'[c].negCache)
              \/ ReadNegCache(c) \/ ReadCache(c))
              => (tasks' = tasks /\ cache' = cache)
    /\ \A c \in Callers :
          FindOne(c)
              => /\ \A b \in Callers \ {c} : tasks'[b] = tasks[b]
                 /\ tasks[c] = NoTask
                 /\ tasks'[c].kind = (IF last'.get.disp = <<>> THEN "none"
                                                                ELSE last'.get.disp[1])
    /\ \A c \in Callers :
          (fillCacheServer(c) \/ fillNegCacheServer(c))
              => /\ tasks'[c] = NoTask
                 /\ \A b \in Callers \ {c} : tasks'[b] = tasks[b]
                 /\ \A k \in AllCacheKeys :
                        cache'[k] /= cache[k]
                            => k = (IF tasks[c].kind = "neg" THEN NegKey(tasks[c].key)
                                                             ELSE tasks[c].key)

(***************************************************************************)
(* C23.  A call starts at most one fill task, negative or positive, and    *)
(* none when it returns from a cache hit or a cache error; a task makes    *)
(* one write to the cache, under its own key, and is over whether the      *)
(* write succeeded or not.                                                 *)
(***************************************************************************)
C23_OneTaskOneWrite == []C23_Inv /\ [][C23_Act]_vars

\* The task of the call has run, its write failed and nothing was written.
C23_Witness ==
    /\ GetReturned /\ last.get.disp = <<"neg">>
    /\ calls[last.obj].pc = "idle" /\ tasks[last.obj] = NoTask
    /\ now = StartTime
    /\ cache[NegKey(last.get.cacheKey)] = NoEntry

(***************************************************************************)
(* C24.  For one entity type the cache key tells the field and the value:  *)
(* two lookups with different (field, value) build different positive keys *)
(* and different negative keys, whatever the strings hold, and no positive *)
(* key is a negative key.                                                  *)
(***************************************************************************)
C24_CacheKeysInjective ==
    \A c1 \in Keyed, c2 \in Keyed :
        /\ (/\ calls[c1].db = calls[c2].db /\ calls[c1].col = calls[c2].col
            /\ <<calls[c1].key, calls[c1].value>> /= <<calls[c2].key, calls[c2].value>>)
              => /\ calls[c1].cacheKey /= calls[c2].cacheKey
                 /\ NegKey(calls[c1].cacheKey) /= NegKey(calls[c2].cacheKey)
        /\ calls[c1].cacheKey /= NegKey(calls[c2].cacheKey)

\* The parts of C25.
C25_Inv ==
    \A o \in Objects : \A d \in store :
        d._id = ents[o].ID => ents[o].UpdatedAt = d.updated_at

C25_Act ==
    \A o \in Objects, patch \in Patches :
        (Update(o, patch) /\ last'.err /= NoErr)
            => /\ ents'[o] = ents[o]
               /\ last'.patch = patch
               /\ store' = store

(***************************************************************************)
(* C25.  An Update that returns an error leaves the object, UpdatedAt      *)
(* included, and the caller's update document as they were, so that the    *)
(* UpdatedAt of a created object is always the updated_at of its stored    *)
(* document.                                                               *)
(***************************************************************************)
C25_FailedUpdateChangesNothing == []C25_Inv /\ [][C25_Act]_vars

====
